---- MODULE Spec2Model ----
(***************************************************************************)
(* A model of cred (src/main.go): a CLI whose root command resolves AWS    *)
(* credentials through the SDK and prints shell statements, whose expiry   *)
(* command reads the session variables of the environment, and whose clear *)
(* command prints unset statements.  The shell that evaluates the printed  *)
(* statements owns the environment between invocations.                    *)
(*                                                                         *)
(* Text is modelled as TLA+ strings, built and taken apart with \o, Len    *)
(* and SubSeq.  Standard output is kept as the shell reads it: a sequence  *)
(* of lines, each a sequence of blank-separated words.  An environment is  *)
(* a function from the names of the variables that are set to their        *)
(* values; a variable that is not in its domain is unset.                  *)
(***************************************************************************)
EXTENDS Integers, Sequences, FiniteSets, TLC

(***************************************************************************)
(* Bounds of the model.                                                    *)
(***************************************************************************)
\* Expiry instants are Epoch, Epoch + 1, ..., Epoch + MaxInstant seconds.
MaxInstant == 1

(***************************************************************************)
(* Names of the managed variables.                                         *)
(***************************************************************************)
accessKeyID == "AWS_ACCESS_KEY_ID"
secretAccessKey == "AWS_SECRET_ACCESS_KEY"
sessionToken == "AWS_SESSION_TOKEN"
sessionExpiresAt == "AWS_SESSION_EXPIRES_AT"
accountID == "AWS_ACCOUNT_ID"
defaultRegion == "AWS_DEFAULT_REGION"
region == "AWS_REGION"

\* allVars without its last entry.
allVarsShort ==
  << accessKeyID, secretAccessKey, sessionToken, sessionExpiresAt,
     accountID, defaultRegion >>

allVars ==
  << accessKeyID, secretAccessKey, sessionToken, sessionExpiresAt,
     accountID, defaultRegion, region >>

\* The elements of a sequence.
Range(s) == { s[i] : i \in 1..Len(s) }

(***************************************************************************)
(* Text helpers.                                                           *)
(***************************************************************************)
HasPrefix(s, p) == Len(s) >= Len(p) /\ SubSeq(s, 1, Len(p)) = p

HasSuffix(s, p) == Len(s) >= Len(p) /\ SubSeq(s, Len(s) - Len(p) + 1, Len(s)) = p

\* fmt.Sprintf("%s=%s", key, val)
set(key, val) == key \o "=" \o val

\* fmt.Sprintf("unset %s;", key), as the two words the shell reads.
unset(key) == << "unset", key \o ";" >>

(***************************************************************************)
(* The process environment: os.Getenv and os.Setenv.                       *)
(***************************************************************************)
Getenv(env, key) == IF key \in DOMAIN env THEN env[key] ELSE ""

Setenv(env, key, val) ==
  [ k \in DOMAIN env \cup {key} |-> IF k = key THEN val ELSE env[k] ]

Unsetenv(env, key) == [ k \in DOMAIN env \ {key} |-> env[k] ]

EmptyEnv == [ k \in {} |-> "" ]

(***************************************************************************)
(* Time: time.Time, time.Format and time.Parse for the layouts RFC3339 and *)
(* RFC1123, over a small calendar.  A Time is a day of the calendar, the   *)
(* second of that day in UTC, a sub-second part and a location.            *)
(***************************************************************************)
RFC3339 == "2006-01-02T15:04:05Z07:00"
RFC1123 == "Mon, 02 Jan 2006 15:04:05 MST"

SecondsPerDay == 24 * 3600

\* The days the model knows, in order; days 1-2 and 3-5 are consecutive.
Calendar ==
  << [ Date |-> "0000-12-31", Long |-> "Sun, 31 Dec 0000" ],
     [ Date |-> "0001-01-01", Long |-> "Mon, 01 Jan 0001" ],
     [ Date |-> "2006-01-01", Long |-> "Sun, 01 Jan 2006" ],
     [ Date |-> "2006-01-02", Long |-> "Mon, 02 Jan 2006" ],
     [ Date |-> "2006-01-03", Long |-> "Tue, 03 Jan 2006" ] >>

UTC == [ Name |-> "UTC", Offset |-> 0 ]
MST == [ Name |-> "MST", Offset |-> 0 - 7 * 3600 ]
Zones == { UTC, MST }

\* time.FixedZone("", offset): what Parse gives a numeric offset.
FixedZone(offset) == IF offset = 0 THEN UTC ELSE [ Name |-> "", Offset |-> offset ]

\* time.Time{}: January 1, year 1, 00:00:00 UTC.
ZeroTime == [ Day |-> 2, Sec |-> 0, Nsec |-> 0, Loc |-> UTC ]

\* 2006-01-02T22:04:05Z, which is 15:04:05 MST.
Epoch == 22 * 3600 + 4 * 60 + 5

Pad2(n) == IF n < 10 THEN "0" \o ToString(n) ELSE ToString(n)

\* The wall clock of t in its location: the day and the second of that day.
Wall(t) ==
  LET w == t.Sec + t.Loc.Offset
  IN IF w < 0 THEN [ Day |-> t.Day - 1, Sec |-> w + SecondsPerDay ]
     ELSE IF w >= SecondsPerDay THEN [ Day |-> t.Day + 1, Sec |-> w - SecondsPerDay ]
     ELSE [ Day |-> t.Day, Sec |-> w ]

Clock(sec) ==
  Pad2(sec \div 3600) \o ":" \o Pad2((sec % 3600) \div 60) \o ":" \o Pad2(sec % 60)

\* The "Z07:00" element of a layout.
ZoneSuffix(offset) ==
  IF offset = 0 THEN "Z"
  ELSE LET a == IF offset < 0 THEN 0 - offset ELSE offset
       IN (IF offset < 0 THEN "-" ELSE "+")
            \o Pad2(a \div 3600) \o ":" \o Pad2((a % 3600) \div 60)

\* The "MST" element of a layout: the abbreviation, or the offset without one.
ZoneAbbr(loc) ==
  IF loc.Name # "" THEN loc.Name
  ELSE LET a == IF loc.Offset < 0 THEN 0 - loc.Offset ELSE loc.Offset
       IN (IF loc.Offset < 0 THEN "-" ELSE "+")
            \o Pad2(a \div 3600) \o Pad2((a % 3600) \div 60)

\* t.Format(layout); neither layout has a fractional-second element.
Format(t, layout) ==
  LET w == Wall(t)
  IN IF layout = RFC3339
     THEN Calendar[w.Day].Date \o "T" \o Clock(w.Sec) \o ZoneSuffix(t.Loc.Offset)
     ELSE Calendar[w.Day].Long \o " " \o Clock(w.Sec) \o " " \o ZoneAbbr(t.Loc)

IsDigit(c) == c \in { ToString(d) : d \in 0..9 }

Digit(c) == CHOOSE d \in 0..9 : ToString(d) = c

IsNum2(s) == Len(s) = 2 /\ IsDigit(SubSeq(s, 1, 1)) /\ IsDigit(SubSeq(s, 2, 2))

Num2(s) == 10 * Digit(SubSeq(s, 1, 1)) + Digit(SubSeq(s, 2, 2))

\* "15:04:05" at the head of s.
IsClock(s) ==
  /\ Len(s) >= 8
  /\ IsNum2(SubSeq(s, 1, 2)) /\ SubSeq(s, 3, 3) = ":"
  /\ IsNum2(SubSeq(s, 4, 5)) /\ SubSeq(s, 6, 6) = ":"
  /\ IsNum2(SubSeq(s, 7, 8))
  /\ Num2(SubSeq(s, 1, 2)) < 24
  /\ Num2(SubSeq(s, 4, 5)) < 60
  /\ Num2(SubSeq(s, 7, 8)) < 60

ClockSec(s) ==
  Num2(SubSeq(s, 1, 2)) * 3600 + Num2(SubSeq(s, 4, 5)) * 60 + Num2(SubSeq(s, 7, 8))

\* "Z07:00": Z, or a sign, hours, a colon and minutes.
IsZoneSuffix(s) ==
  \/ s = "Z"
  \/ /\ Len(s) = 6
     /\ SubSeq(s, 1, 1) \in { "+", "-" }
     /\ IsNum2(SubSeq(s, 2, 3)) /\ SubSeq(s, 4, 4) = ":" /\ IsNum2(SubSeq(s, 5, 6))
     /\ Num2(SubSeq(s, 2, 3)) < 24
     /\ Num2(SubSeq(s, 5, 6)) < 60

SuffixOffset(s) ==
  IF s = "Z" THEN 0
  ELSE LET a == Num2(SubSeq(s, 2, 3)) * 3600 + Num2(SubSeq(s, 5, 6)) * 60
       IN IF SubSeq(s, 1, 1) = "-" THEN 0 - a ELSE a

\* The time of a wall clock (day, second) at an offset.
FromWall(day, sec, offset) ==
  LET u == sec - offset
      d == IF u < 0 THEN day - 1 ELSE IF u >= SecondsPerDay THEN day + 1 ELSE day
      s == IF u < 0 THEN u + SecondsPerDay
           ELSE IF u >= SecondsPerDay THEN u - SecondsPerDay ELSE u
  IN [ Day |-> d, Sec |-> s, Nsec |-> 0, Loc |-> FixedZone(offset) ]

\* time.Parse(time.RFC3339, value): [ok, t].  A date outside the calendar and
\* a fractional second (which Parse accepts) are not among the model's texts.
ParseRFC3339(value) ==
  LET days == { d \in 1..Len(Calendar) : Calendar[d].Date = SubSeq(value, 1, 10) }
      good == /\ Len(value) >= 20
              /\ days # {}
              /\ SubSeq(value, 11, 11) = "T"
              /\ IsClock(SubSeq(value, 12, 19))
              /\ IsZoneSuffix(SubSeq(value, 20, Len(value)))
  IN IF good
     THEN [ ok |-> TRUE,
            t |-> FromWall(CHOOSE d \in days : TRUE,
                           ClockSec(SubSeq(value, 12, 19)),
                           SuffixOffset(SubSeq(value, 20, Len(value)))) ]
     ELSE [ ok |-> FALSE, t |-> ZeroTime ]

\* time.Parse(time.RFC1123, value): [ok, t]; a zone abbreviation the parser
\* does not know the offset of is read as UTC wall clock under that name.
ParseRFC1123(value) ==
  LET days == { d \in 1..Len(Calendar) : Calendar[d].Long = SubSeq(value, 1, 16) }
      good == /\ Len(value) = 29
              /\ days # {}
              /\ SubSeq(value, 17, 17) = " "
              /\ IsClock(SubSeq(value, 18, 25))
              /\ SubSeq(value, 26, 26) = " "
  IN IF good
     THEN [ ok |-> TRUE,
            t |-> [ Day |-> CHOOSE d \in days : TRUE,
                    Sec |-> ClockSec(SubSeq(value, 18, 25)),
                    Nsec |-> 0,
                    Loc |-> [ Name |-> SubSeq(value, 27, 29), Offset |-> 0 ] ] ]
     ELSE [ ok |-> FALSE, t |-> ZeroTime ]

Parse(layout, value) ==
  IF layout = RFC3339 THEN ParseRFC3339(value) ELSE ParseRFC1123(value)

\* t.In(loc): the same instant in another location.
In(t, loc) == [ t EXCEPT !.Loc = loc ]

\* Whether two times are the same instant to the second.
SameSecond(t, u) == t.Day = u.Day /\ t.Sec = u.Sec

(***************************************************************************)
(* The collaborators of one invocation: the shared configuration and the   *)
(* identity service, as the SDK finds them.  Fail names the step that      *)
(* fails, Region and Creds are what the selected profile resolves to, and  *)
(* Account is the account the identity service reports.                    *)
(***************************************************************************)
NoError == "<nil>"

\* The expiry instants: on a whole second or half a second after it, in
\* either zone.
Instants ==
  { [ Day |-> 4, Sec |-> Epoch + i, Nsec |-> n, Loc |-> z ] :
      i \in 0..MaxInstant, n \in { 0, 500000000 }, z \in Zones }

\* aws.Credentials.  Long-term credentials (no session token) do not
\* expire: their Expires is the zero time.  Temporary ones carry an expiry, or
\* the zero time when the profile states a token and nothing else.
CredentialSets ==
  [ AccessKeyID : { "AKIAEXAMPLE" },
    SecretAccessKey : { "wJalrSECRET" },
    SessionToken : { "" },
    Expires : { ZeroTime },
    AccountID : { "", "111111111111" } ]
  \cup
  [ AccessKeyID : { "ASIAEXAMPLE" },
    SecretAccessKey : { "wJalrSECRET" },
    SessionToken : { "FwoGZXIvYXdzTOKEN" },
    Expires : Instants \cup { ZeroTime },
    AccountID : { "", "111111111111" } ]

FailureModes == { "none", "config", "retrieve", "identity-api", "identity-other" }

\* A world in which a step fails resolves nothing worth telling apart.
Worlds ==
  [ Fail : { "none" },
    Region : { "", "us-east-1" },
    Creds : CredentialSets,
    Account : { "222222222222" } ]
  \cup
  [ Fail : FailureModes \ { "none" },
    Region : { "us-east-1" },
    Creds : { [ AccessKeyID |-> "ASIAEXAMPLE", SecretAccessKey |-> "wJalrSECRET",
                SessionToken |-> "FwoGZXIvYXdzTOKEN", Expires |-> ZeroTime,
                AccountID |-> "" ] },
    Account : { "222222222222" } ]

\* The world of a command that calls no collaborator.
NoWorld ==
  [ Fail |-> "none", Region |-> "",
    Creds |-> [ AccessKeyID |-> "", SecretAccessKey |-> "", SessionToken |-> "",
                Expires |-> ZeroTime, AccountID |-> "" ],
    Account |-> "" ]

\* The values of the --profile flag: none, or a profile's name.
Profiles == { "", "work" }

\* config.LoadDefaultConfig: [cfg, err]; w is what the profile that opts
\* select (the default one without) resolves to.  The region is the environment's
\* (AWS_REGION, then AWS_DEFAULT_REGION) before the shared configuration's;
\* the credentials are the environment's when it holds a key pair.
LoadDefaultConfig(env, opts, w) ==
  IF w.Fail = "config"
  THEN [ cfg |-> [ Region |-> "", FromEnv |-> FALSE, Env |-> EmptyEnv ],
         err |-> "failed to load shared config" ]
  ELSE [ cfg |-> [ Region |-> IF Getenv(env, region) # "" THEN Getenv(env, region)
                              ELSE IF Getenv(env, defaultRegion) # ""
                                   THEN Getenv(env, defaultRegion)
                                   ELSE w.Region,
                   FromEnv |-> Getenv(env, accessKeyID) # ""
                               /\ Getenv(env, secretAccessKey) # "",
                   Env |-> env ],
         err |-> NoError ]

\* cfg.Credentials.Retrieve: [creds, err].
Retrieve(cfg, w) ==
  IF cfg.FromEnv
  THEN [ creds |-> [ AccessKeyID |-> Getenv(cfg.Env, accessKeyID),
                     SecretAccessKey |-> Getenv(cfg.Env, secretAccessKey),
                     SessionToken |-> Getenv(cfg.Env, sessionToken),
                     Expires |-> ZeroTime,
                     AccountID |-> Getenv(cfg.Env, accountID) ],
         err |-> NoError ]
  ELSE IF w.Fail = "retrieve"
  THEN [ creds |-> [ AccessKeyID |-> "", SecretAccessKey |-> "", SessionToken |-> "",
                     Expires |-> ZeroTime, AccountID |-> "" ],
         err |-> "failed to retrieve credentials" ]
  ELSE [ creds |-> w.Creds, err |-> NoError ]

\* getCallerIdentity with the error of the call dropped.
getCallerIdentityLenient(cfg, w) ==
  [ data |-> [ Account |-> IF w.Fail \in { "identity-api", "identity-other" }
                           THEN "" ELSE w.Account ],
    err |-> NoError ]

\* sts GetCallerIdentity behind getCallerIdentity: [data, err].  A call that
\* succeeds reports the account.
getCallerIdentity(cfg, w) ==
  IF w.Fail = "identity-api"
  THEN [ data |-> [ Account |-> "" ],
         err |-> "Invalid credentials: " \o "ExpiredToken" \o ": " \o "token expired" ]
  ELSE IF w.Fail = "identity-other"
  THEN [ data |-> [ Account |-> "" ],
         err |-> "Invalid credentials: " \o "connection refused" ]
  ELSE [ data |-> [ Account |-> w.Account ], err |-> NoError ]

(***************************************************************************)
(* The root command.                                                       *)
(***************************************************************************)
\* The five variables an earlier revision of the command emptied.
clearedVarsLegacy ==
  << accountID, defaultRegion, accessKeyID, secretAccessKey, sessionToken >>

\* The variables the root command empties before it resolves.
clearedVars == allVars

RECURSIVE clearEnv(_, _)
clearEnv(env, keys) ==
  IF keys = << >> THEN env
  ELSE clearEnv(Setenv(env, Head(keys), ""), Tail(keys))

\* accountPart with the identity check's account always.
accountPartIdentityOnly(creds, data) ==
  [ exports |-> << set(accountID, data.Account) >>, unsets |-> << >> ]

\* The account id: the credential set's, else the identity check's.
accountPart(creds, data) ==
  IF creds.AccountID # ""
  THEN [ exports |-> << set(accountID, creds.AccountID) >>, unsets |-> << >> ]
  ELSE [ exports |-> << set(accountID, data.Account) >>, unsets |-> << >> ]

\* regionPart of an earlier revision: the default region alone.
regionPartLegacy(cfg) ==
  IF cfg.Region # ""
  THEN [ exports |-> << set(defaultRegion, cfg.Region) >>, unsets |-> << >> ]
  ELSE [ exports |-> << >>, unsets |-> << unset(defaultRegion) >> ]

\* The region: both variables exported, or both unset.
regionPart(cfg) ==
  IF cfg.Region # ""
  THEN [ exports |-> << set(defaultRegion, cfg.Region), set(region, cfg.Region) >>,
         unsets |-> << >> ]
  ELSE [ exports |-> << >>,
         unsets |-> << unset(defaultRegion), unset(region) >> ]

\* exportLayout with the layout the expiry command prints in.
exportLayoutLong == RFC1123

\* The layout the root command writes the expiry in.
exportLayout == RFC3339

\* sessionPart without its else branch.
sessionPartNoUnset(creds) ==
  IF creds.SessionToken # ""
  THEN [ exports |-> << set(sessionToken, creds.SessionToken),
                        set(sessionExpiresAt, Format(creds.Expires, exportLayout)) >>,
         unsets |-> << >> ]
  ELSE [ exports |-> << >>, unsets |-> << >> ]

\* sessionPart with the unset statements appended on both branches.
sessionPartAlwaysUnset(creds) ==
  [ exports |-> IF creds.SessionToken # ""
                THEN << set(sessionToken, creds.SessionToken),
                        set(sessionExpiresAt, Format(creds.Expires, exportLayout)) >>
                ELSE << >>,
    unsets |-> << unset(sessionToken), unset(sessionExpiresAt) >> ]

\* The session: token and expiry exported, or both unset.
sessionPart(creds) ==
  IF creds.SessionToken # ""
  THEN [ exports |-> << set(sessionToken, creds.SessionToken),
                        set(sessionExpiresAt, Format(creds.Expires, exportLayout)) >>,
         unsets |-> << >> ]
  ELSE [ exports |-> << >>,
         unsets |-> << unset(sessionToken), unset(sessionExpiresAt) >> ]

\* What a run that printed no export statement resolved.
NoResolved == [ Region |-> "", Creds |-> NoWorld.Creds, Account |-> "" ]

\* What one run of a command leaves behind.
Outcome(penv, events, stdout, err) ==
  [ procEnv |-> penv, events |-> events, stdout |-> stdout, err |-> err,
    resolved |-> NoResolved ]

\* rootCmd.RunE run with --profile flag in environment env against world w.
\* events lists the SDK calls and the print in the order the run makes them;
\* resolved is cfg.Region, creds and *data.Account of a run that printed.
rootCmd(env, flag, w) ==
  LET opts == IF flag # "" THEN << "WithSharedConfigProfile" >> ELSE << >>
      penv == clearEnv(env, clearedVars)
      lc == LoadDefaultConfig(penv, opts, w)
      rc == Retrieve(lc.cfg, w)
      id == getCallerIdentity(lc.cfg, w)
      acc == accountPart(rc.creds, id.data)
      reg == regionPart(lc.cfg)
      ses == sessionPart(rc.creds)
      exports == << set(accessKeyID, rc.creds.AccessKeyID),
                    set(secretAccessKey, rc.creds.SecretAccessKey) >>
                   \o acc.exports \o reg.exports \o ses.exports
      unsets == reg.unsets \o ses.unsets
      output == unsets \o << << "export" >> \o exports >>
  IN IF lc.err # NoError
     THEN Outcome(penv, opts \o << "LoadDefaultConfig" >>, << >>, lc.err)
     ELSE IF rc.err # NoError
     THEN Outcome(penv, opts \o << "LoadDefaultConfig", "Retrieve" >>, << >>, rc.err)
     ELSE IF id.err # NoError
     THEN Outcome(penv,
                  opts \o << "LoadDefaultConfig", "Retrieve", "GetCallerIdentity" >>,
                  << >>, id.err)
     ELSE [ Outcome(penv,
                    opts \o << "LoadDefaultConfig", "Retrieve", "GetCallerIdentity",
                               "Print" >>,
                    output, NoError)
              EXCEPT !.resolved = [ Region |-> lc.cfg.Region, Creds |-> rc.creds,
                                    Account |-> id.data.Account ] ]

(***************************************************************************)
(* The expiry command.                                                     *)
(***************************************************************************)
ErrNotSet == "AWS credentials are not set as environment variables"
ErrNotTemporary == "AWS credentials in environment variables are not temporary"
ErrNotRecorded ==
  "AWS credentials expiration time has not been recorded in your environment"
ErrNotProperlyRecorded ==
  "AWS credentials expiration time has not been properly recorded in your environment"

\* expiryLayout with the layout the expiry command prints in.
expiryLayoutLong == RFC1123

\* The layout the expiry command reads the expiry in.
expiryLayout == RFC3339

\* expirySwitch with its first two cases in the other order.
expirySwitchTokenFirst(env) ==
  IF Getenv(env, sessionToken) = "" THEN ErrNotTemporary
  ELSE IF Getenv(env, accessKeyID) = "" THEN ErrNotSet
  ELSE IF Getenv(env, sessionExpiresAt) = "" THEN ErrNotRecorded
  ELSE NoError

\* The cases of the switch before its default: the error of the first case
\* that matches.
expirySwitch(env) ==
  IF Getenv(env, accessKeyID) = "" THEN ErrNotSet
  ELSE IF Getenv(env, sessionToken) = "" THEN ErrNotTemporary
  ELSE IF Getenv(env, sessionExpiresAt) = "" THEN ErrNotRecorded
  ELSE NoError

\* expiryCmd.RunE run in environment env on a machine whose zone is local.
expiryCmd(env, local) ==
  LET e == expirySwitch(env)
      p == Parse(expiryLayout, Getenv(env, sessionExpiresAt))
  IN IF e # NoError THEN Outcome(env, << >>, << >>, e)
     ELSE IF ~p.ok THEN Outcome(env, << >>, << >>, ErrNotProperlyRecorded)
     ELSE Outcome(env, << "Print" >>, << << Format(In(p.t, local), RFC1123) >> >>,
                  NoError)

(***************************************************************************)
(* The clear command.                                                      *)
(***************************************************************************)
clearCmd(env) ==
  Outcome(env, << "Print" >>, [ i \in 1..Len(allVars) |-> unset(allVars[i]) ], NoError)

\* main: the exit code of a run that returned err.
main(err) == IF err # NoError THEN 1 ELSE 0

(***************************************************************************)
(* The shell: eval $(cred ...) runs the printed statements in order.       *)
(***************************************************************************)
\* The place of the first "=" of a word from place i on, or 0.
RECURSIVE EqualsAt(_, _)
EqualsAt(word, i) ==
  IF i > Len(word) THEN 0
  ELSE IF SubSeq(word, i, i) = "=" THEN i
  ELSE EqualsAt(word, i + 1)

\* export NAME=VALUE: the word assigns VALUE to NAME.
ShellAssign(env, word) ==
  LET i == EqualsAt(word, 1)
  IN IF i = 0 THEN env
     ELSE Setenv(env, SubSeq(word, 1, i - 1), SubSeq(word, i + 1, Len(word)))

RECURSIVE ShellExport(_, _)
ShellExport(env, words) ==
  IF words = << >> THEN env
  ELSE ShellExport(ShellAssign(env, Head(words)), Tail(words))

RECURSIVE ShellUnset(_, _)
ShellUnset(env, words) ==
  IF words = << >> THEN env
  ELSE ShellUnset(Unsetenv(env, IF HasSuffix(Head(words), ";")
                                THEN SubSeq(Head(words), 1, Len(Head(words)) - 1)
                                ELSE Head(words)),
                  Tail(words))

ShellLine(env, line) ==
  IF line = << >> THEN env
  ELSE IF Head(line) = "export" THEN ShellExport(env, Tail(line))
  ELSE IF Head(line) = "unset" THEN ShellUnset(env, Tail(line))
  ELSE env

RECURSIVE ShellEval(_, _)
ShellEval(env, lines) ==
  IF lines = << >> THEN env
  ELSE ShellEval(ShellLine(env, Head(lines)), Tail(lines))

(***************************************************************************)
(* The state: a shell session on one machine.                              *)
(***************************************************************************)
VARIABLES
  shellEnv,   \* the environment of the shell
  local,      \* the machine's time zone
  lastCmd,    \* what ran last: "none", "root", "expiry", "clear", "eval"
  world,      \* the collaborators the last root command ran against
  resolved,   \* what the last root command resolved, when it printed
  procEnv,    \* the environment of the last command's process when it ended
  events,     \* the SDK calls and prints of the last command, in order
  stdout,     \* the standard output of the last command
  err,        \* the error the last command returned
  exitCode,   \* the exit code of the last command
  profile,    \* the --profile flag of the last command
  evaluated   \* the run whose output the shell evaluated last

vars ==
  << shellEnv, local, lastCmd, world, resolved, procEnv, events, stdout, err, exitCode,
     profile, evaluated >>

\* A value a variable may hold before the session: none (unset) or one of vals.
Opt(vals) == { << >> } \cup { << v >> : v \in vals }

\* The environment that sets each name of names whose value in opts is not none.
MkEnv(names, opts) ==
  [ k \in { names[i] : i \in { j \in 1..Len(names) : opts[j] # << >> } } |->
      opts[CHOOSE i \in 1..Len(names) : names[i] = k][1] ]

\* The environments a session may start in.
PriorEnvs ==
  { MkEnv(<< accessKeyID, secretAccessKey, sessionToken, sessionExpiresAt,
             accountID, defaultRegion, region >>,
          << a, s, t, e, acc, dr, r >>) :
      a \in Opt({ "X" }),
      s \in Opt({ "S" }),
      t \in Opt({ "", "Y" }),
      e \in Opt({ "2006-01-02T15:04:05-07:00", "Mon, 02 Jan 2006 15:04:05 MST" }),
      acc \in Opt({ "999999999999" }),
      dr \in Opt({ "ap-south-1" }),
      r \in Opt({ "eu-west-1" }) }

Init ==
  /\ shellEnv \in PriorEnvs
  /\ local \in Zones
  /\ lastCmd = "none"
  /\ world = NoWorld
  /\ resolved = NoResolved
  /\ procEnv = EmptyEnv
  /\ events = << >>
  /\ stdout = << >>
  /\ err = NoError
  /\ exitCode = 0
  /\ profile = ""
  /\ evaluated = [ cmd |-> "none", resolved |-> NoResolved ]

\* The shell is at its prompt: no command's output is waiting.
AtPrompt == lastCmd \in { "none", "eval" }

\* The command cmd ran against w and left outcome o.
Ran(cmd, w, o) ==
  /\ lastCmd' = cmd
  /\ world' = w
  /\ resolved' = o.resolved
  /\ procEnv' = o.procEnv
  /\ events' = o.events
  /\ stdout' = o.stdout
  /\ err' = o.err
  /\ exitCode' = main(o.err)
  /\ UNCHANGED << shellEnv, local, evaluated >>

\* cred [--profile p]
Root ==
  /\ AtPrompt
  /\ \E p \in Profiles, w \in Worlds :
    \E o \in { rootCmd(shellEnv, p, w) } :
      /\ profile' = p
      /\ Ran("root", w, o)

\* cred expiry
Expiry ==
  /\ AtPrompt
  /\ \E o \in { expiryCmd(shellEnv, local) } :
    /\ UNCHANGED profile
    /\ Ran("expiry", NoWorld, o)

\* cred clear
Clear ==
  /\ AtPrompt
  /\ \E o \in { clearCmd(shellEnv) } :
    /\ UNCHANGED profile
    /\ Ran("clear", NoWorld, o)

\* eval $(cred) and eval $(cred clear): the shell runs what was printed.
Eval ==
  /\ lastCmd \in { "root", "clear" }
  /\ exitCode = 0
  /\ shellEnv' = ShellEval(shellEnv, stdout)
  /\ lastCmd' = "eval"
  /\ evaluated' = [ cmd |-> lastCmd, resolved |-> resolved ]
  /\ UNCHANGED << local, profile, world, resolved, procEnv, events, stdout, err,
                  exitCode >>

\* The output went to the terminal, or the command failed: the shell prompts
\* again with its environment as it was.
Return ==
  /\ lastCmd \in { "root", "expiry", "clear" }
  /\ lastCmd' = "none"
  /\ profile' = ""
  /\ world' = NoWorld
  /\ resolved' = NoResolved
  /\ procEnv' = EmptyEnv
  /\ events' = << >>
  /\ stdout' = << >>
  /\ err' = NoError
  /\ exitCode' = 0
  /\ UNCHANGED << shellEnv, local, evaluated >>

Next == Root \/ Expiry \/ Clear \/ Eval \/ Return

Spec == Init /\ [][Next]_vars

(***************************************************************************)
(* Vocabulary of the properties.                                           *)
(***************************************************************************)
\* The seven managed variables.
Managed ==
  { "AWS_ACCESS_KEY_ID", "AWS_SECRET_ACCESS_KEY", "AWS_SESSION_TOKEN",
    "AWS_SESSION_EXPIRES_AT", "AWS_ACCOUNT_ID", "AWS_DEFAULT_REGION", "AWS_REGION" }

\* The lines of out that are export lines.
ExportLines(out) == { l \in 1..Len(out) : out[l] # << >> /\ out[l][1] = "export" }

\* The places <<line, word>> of out where an export line assigns k.
AssignPlaces(out, k) ==
  UNION { { << l, i >> : i \in { j \in 2..Len(out[l]) : HasPrefix(out[l][j], k \o "=") } } :
          l \in ExportLines(out) }

\* The values out assigns to k.
AssignedValues(out, k) ==
  { SubSeq(out[pl[1]][pl[2]], Len(k) + 2, Len(out[pl[1]][pl[2]])) :
      pl \in AssignPlaces(out, k) }

\* The lines of out that are the statement "unset k;".
UnsetPlaces(out, k) == { l \in 1..Len(out) : out[l] = << "unset", k \o ";" >> }

\* How often call occurs in a sequence of events.
Times(evs, call) == Cardinality({ i \in 1..Len(evs) : evs[i] = call })

\* The place of the first occurrence of call in evs (0: none).
Place(evs, call) ==
  IF call \in Range(evs) THEN CHOOSE i \in 1..Len(evs) :
                                 evs[i] = call /\ \A j \in 1..(i - 1) : evs[j] # call
  ELSE 0

\* The root command has just run and succeeded.
Exported == lastCmd = "root" /\ exitCode = 0

\* An environment that sets all seven managed variables.
FullPriorEnv ==
  MkEnv(<< accessKeyID, secretAccessKey, sessionToken, sessionExpiresAt,
           accountID, defaultRegion, region >>,
        << << "X" >>, << "S" >>, << "Y" >>, << "2006-01-02T15:04:05-07:00" >>,
           << "999999999999" >>, << "ap-south-1" >>, << "eu-west-1" >> >>)

\* 2006-01-02 15:04:05 MST, the instant of the layouts' reference time.
KnownInstant == [ Day |-> 4, Sec |-> Epoch, Nsec |-> 0, Loc |-> MST ]

(***************************************************************************)
(* C1.  After a successful run of the root command: when the resolved      *)
(* credential set has no session token, the output holds the statements    *)
(* "unset AWS_SESSION_TOKEN;" and "unset AWS_SESSION_EXPIRES_AT;" and the  *)
(* export line assigns neither variable; when it has one, the export line  *)
(* assigns both and neither is unset.                                      *)
(***************************************************************************)
C1_SessionExportedOrUnset ==
  Exported =>
    IF resolved.Creds.SessionToken = ""
    THEN /\ UnsetPlaces(stdout, "AWS_SESSION_TOKEN") # {}
         /\ UnsetPlaces(stdout, "AWS_SESSION_EXPIRES_AT") # {}
         /\ AssignPlaces(stdout, "AWS_SESSION_TOKEN") = {}
         /\ AssignPlaces(stdout, "AWS_SESSION_EXPIRES_AT") = {}
    ELSE /\ AssignedValues(stdout, "AWS_SESSION_TOKEN") = { resolved.Creds.SessionToken }
         /\ AssignPlaces(stdout, "AWS_SESSION_EXPIRES_AT") # {}
         /\ UnsetPlaces(stdout, "AWS_SESSION_TOKEN") = {}
         /\ UnsetPlaces(stdout, "AWS_SESSION_EXPIRES_AT") = {}

\* A token-less export in a shell that holds a session token.
C1_Witness ==
  /\ Exported
  /\ resolved.Creds.SessionToken = ""
  /\ Getenv(shellEnv, sessionToken) # ""
  /\ Getenv(shellEnv, sessionExpiresAt) # ""

(***************************************************************************)
(* C2.  After a successful run of the root command: when the resolved      *)
(* region is not empty, the export line assigns it to AWS_DEFAULT_REGION   *)
(* and to AWS_REGION alike; when it is empty, the output unsets both and   *)
(* assigns neither.                                                        *)
(***************************************************************************)
C2_RegionBothOrNeither ==
  Exported =>
    IF resolved.Region # ""
    THEN /\ AssignedValues(stdout, "AWS_DEFAULT_REGION") = { resolved.Region }
         /\ AssignedValues(stdout, "AWS_REGION") = { resolved.Region }
         /\ UnsetPlaces(stdout, "AWS_DEFAULT_REGION") = {}
         /\ UnsetPlaces(stdout, "AWS_REGION") = {}
    ELSE /\ UnsetPlaces(stdout, "AWS_DEFAULT_REGION") # {}
         /\ UnsetPlaces(stdout, "AWS_REGION") # {}
         /\ AssignPlaces(stdout, "AWS_DEFAULT_REGION") = {}
         /\ AssignPlaces(stdout, "AWS_REGION") = {}

\* An export with a region, in a shell whose region variables say otherwise.
C2_Witness ==
  /\ Exported
  /\ resolved.Region = "us-east-1"
  /\ Getenv(shellEnv, region) = "eu-west-1"

(***************************************************************************)
(* C3.  The expiry command returns the error of the first check that       *)
(* fails, in the order: access key unset, session token unset, expiry      *)
(* unset, expiry unparseable; it prints and succeeds only when all four    *)
(* pass.                                                                   *)
(***************************************************************************)
C3_ExpiryFirstFailureWins ==
  lastCmd = "expiry" =>
    LET a == Getenv(shellEnv, "AWS_ACCESS_KEY_ID")
        t == Getenv(shellEnv, "AWS_SESSION_TOKEN")
        x == Getenv(shellEnv, "AWS_SESSION_EXPIRES_AT")
        parses == Parse(RFC3339, x).ok
    IN /\ a = "" => err = ErrNotSet
       /\ a # "" /\ t = "" => err = ErrNotTemporary
       /\ a # "" /\ t # "" /\ x = "" => err = ErrNotRecorded
       /\ a # "" /\ t # "" /\ x # "" /\ ~parses => err = ErrNotProperlyRecorded
       /\ a # "" /\ t # "" /\ x # "" /\ parses
            => err = NoError /\ exitCode = 0 /\ Len(stdout) = 1
       /\ err # NoError => exitCode = 1 /\ stdout = << >>

\* The access key and the token are both missing: the first check decides.
C3_Witness ==
  /\ lastCmd = "expiry"
  /\ Getenv(shellEnv, accessKeyID) = ""
  /\ Getenv(shellEnv, sessionToken) = ""
  /\ Getenv(shellEnv, sessionExpiresAt) = ""
  /\ err = ErrNotSet

(***************************************************************************)
(* C4.  As claimed: with access key "X", session token "Y" and expiry      *)
(* "Mon, 02 Jan 2006 15:04:05 MST", the expiry command succeeds and prints *)
(* that instant in local time in RFC1123 form.                             *)
(***************************************************************************)
C4_AsClaimed ==
  ( /\ lastCmd = "expiry"
    /\ Getenv(shellEnv, accessKeyID) = "X"
    /\ Getenv(shellEnv, sessionToken) = "Y"
    /\ Getenv(shellEnv, sessionExpiresAt) = "Mon, 02 Jan 2006 15:04:05 MST" )
  => /\ exitCode = 0
     /\ stdout = << << Format(In(KnownInstant, local), RFC1123) >> >>

(***************************************************************************)
(* C4, amended.  With access key "X", session token "Y" and expiry         *)
(* "2006-01-02T15:04:05-07:00" (the RFC3339 rendering of the instant), the *)
(* expiry command succeeds and prints that instant in local time in        *)
(* RFC1123 form; with its RFC1123 rendering "Mon, 02 Jan 2006 15:04:05     *)
(* MST" the command fails with the "not properly recorded" error.          *)
(***************************************************************************)
C4_ExpiryReadsRFC3339 ==
  ( /\ lastCmd = "expiry"
    /\ Getenv(shellEnv, accessKeyID) = "X"
    /\ Getenv(shellEnv, sessionToken) = "Y" )
  => /\ Getenv(shellEnv, sessionExpiresAt) = "2006-01-02T15:04:05-07:00"
          => /\ exitCode = 0
             /\ stdout = << << Format(In(KnownInstant, local), RFC1123) >> >>
             /\ stdout \in { << << "Mon, 02 Jan 2006 15:04:05 MST" >> >>,
                             << << "Mon, 02 Jan 2006 22:04:05 UTC" >> >> }
     /\ Getenv(shellEnv, sessionExpiresAt) = "Mon, 02 Jan 2006 15:04:05 MST"
          => /\ exitCode = 1
             /\ err = ErrNotProperlyRecorded
             /\ stdout = << >>

\* The expiry command has printed the known instant on a machine in UTC.
C4_Witness ==
  /\ lastCmd = "expiry"
  /\ Getenv(shellEnv, accessKeyID) = "X"
  /\ Getenv(shellEnv, sessionToken) = "Y"
  /\ Getenv(shellEnv, sessionExpiresAt) = "2006-01-02T15:04:05-07:00"
  /\ local = UTC
  /\ stdout = << << "Mon, 02 Jan 2006 22:04:05 UTC" >> >>

(***************************************************************************)
(* C5.  The clear command never fails; its output is one unset statement   *)
(* for each of the seven managed variables; once the shell has evaluated   *)
(* it all seven are unset whatever they held, and a following expiry       *)
(* command reports the "credentials not set" error.                        *)
(***************************************************************************)
C5_ClearUnsetsAllSeven ==
  /\ lastCmd = "clear" =>
       /\ exitCode = 0 /\ err = NoError
       /\ Len(stdout) = 7
       /\ \A k \in Managed :
            /\ Cardinality(UnsetPlaces(stdout, k)) = 1
            /\ AssignPlaces(stdout, k) = {}
            /\ k \notin DOMAIN ShellEval(shellEnv, stdout)
  /\ lastCmd = "eval" /\ evaluated.cmd = "clear" =>
       \A k \in Managed : k \notin DOMAIN shellEnv
  /\ lastCmd = "expiry" /\ evaluated.cmd = "clear" =>
       err = ErrNotSet /\ exitCode = 1

\* The clear command has run in a shell that holds all seven variables.
C5_Witness ==
  /\ lastCmd = "clear"
  /\ \A k \in Managed : Getenv(shellEnv, k) # ""

(***************************************************************************)
(* C6.  The root command resolves in a process environment in which every  *)
(* one of the seven managed variables reads as empty, and what it prints,  *)
(* returns and calls is what a run against the same collaborators prints,  *)
(* returns and calls from an environment with none of the seven set and    *)
(* from one with all of them set.                                          *)
(***************************************************************************)
C6_ExportIndependentOfPriorEnv ==
  lastCmd = "root" =>
    /\ \A k \in Managed : Getenv(procEnv, k) = ""
    /\ \A e \in { EmptyEnv, FullPriorEnv } :
         LET o == rootCmd(e, profile, world)
         IN /\ o.stdout = stdout
            /\ o.err = err
            /\ o.events = events
            /\ o.resolved = resolved

\* A successful export, without a region, in a shell that holds all seven.
C6_Witness ==
  /\ Exported
  /\ \A k \in Managed : Getenv(shellEnv, k) # ""
  /\ resolved.Region = ""
  /\ resolved.Creds.AccessKeyID # Getenv(shellEnv, accessKeyID)

(***************************************************************************)
(* C7.  After a successful run of the root command the export line assigns *)
(* AWS_ACCOUNT_ID once: the account id of the credential set when that is  *)
(* not empty, else the account id of the identity check.                   *)
(***************************************************************************)
C7_AccountIdSource ==
  Exported =>
    /\ Cardinality(AssignPlaces(stdout, "AWS_ACCOUNT_ID")) = 1
    /\ UnsetPlaces(stdout, "AWS_ACCOUNT_ID") = {}
    /\ AssignedValues(stdout, "AWS_ACCOUNT_ID") =
         { IF resolved.Creds.AccountID # "" THEN resolved.Creds.AccountID
           ELSE resolved.Account }

\* The credential set carries an account id other than the identity check's.
C7_Witness ==
  /\ Exported
  /\ resolved.Creds.AccountID # ""
  /\ resolved.Account # ""
  /\ resolved.Creds.AccountID # resolved.Account

(***************************************************************************)
(* C8.  When a step of the root command fails, the run ends with exit code *)
(* 1 and prints nothing; no step is made twice; the statements are printed *)
(* only after the three steps succeeded, in order; the identity check is   *)
(* made only after the credentials were retrieved.                         *)
(***************************************************************************)
C8_FailureIsTerminalAndSilent ==
  lastCmd = "root" =>
    /\ world.Fail # "none" =>
         /\ exitCode = 1 /\ err # NoError
         /\ stdout = << >>
         /\ "Print" \notin Range(events)
    /\ \A c \in { "LoadDefaultConfig", "Retrieve", "GetCallerIdentity", "Print" } :
         Times(events, c) <= 1
    /\ (stdout # << >> \/ "Print" \in Range(events)) =>
         /\ world.Fail = "none" /\ exitCode = 0
         /\ 0 < Place(events, "LoadDefaultConfig")
         /\ Place(events, "LoadDefaultConfig") < Place(events, "Retrieve")
         /\ Place(events, "Retrieve") < Place(events, "GetCallerIdentity")
         /\ Place(events, "GetCallerIdentity") < Place(events, "Print")
    /\ "GetCallerIdentity" \in Range(events) =>
         /\ world.Fail \notin { "config", "retrieve" }
         /\ 0 < Place(events, "Retrieve")
         /\ Place(events, "Retrieve") < Place(events, "GetCallerIdentity")
    /\ world.Fail = "config" => "Retrieve" \notin Range(events)

\* The identity check has failed with a structured error.
C8_Witness ==
  /\ lastCmd = "root"
  /\ world.Fail = "identity-api"
  /\ exitCode = 1
  /\ "GetCallerIdentity" \in Range(events)

(***************************************************************************)
(* C9.  Once the shell has evaluated the output of a root command whose    *)
(* credential set has a session token, the expiry command succeeds and     *)
(* prints the expiry of that credential set in local time: the text the    *)
(* root command wrote parses, in the expiry command's layout, to the same  *)
(* second.                                                                 *)
(***************************************************************************)
C9_ExportExpiryRoundTrip ==
  ( /\ lastCmd = "expiry"
    /\ evaluated.cmd = "root"
    /\ evaluated.resolved.Creds.SessionToken # "" )
  => /\ exitCode = 0 /\ err = NoError
     /\ stdout = << << Format(In(evaluated.resolved.Creds.Expires, local), RFC1123) >> >>
     /\ Parse(RFC3339, Getenv(shellEnv, "AWS_SESSION_EXPIRES_AT")).ok
     /\ SameSecond(Parse(RFC3339, Getenv(shellEnv, "AWS_SESSION_EXPIRES_AT")).t,
                   evaluated.resolved.Creds.Expires)

\* The expiry has a sub-second part and a zone other than the machine's.
C9_Witness ==
  /\ lastCmd = "expiry"
  /\ evaluated.cmd = "root"
  /\ evaluated.resolved.Creds.SessionToken # ""
  /\ evaluated.resolved.Creds.Expires.Nsec # 0
  /\ evaluated.resolved.Creds.Expires.Loc # local
  /\ exitCode = 0

(***************************************************************************)
(* C10.  In the output of a successful root command each of the seven      *)
(* managed variables occurs once: assigned on the one export line or in an *)
(* unset statement.  So the shell's environment after it evaluated an      *)
(* output is what that output alone makes it, and after a token-less       *)
(* export was evaluated the expiry command reports "not temporary".        *)
(***************************************************************************)
C10_EachVariableExactlyOnce ==
  /\ Exported =>
       /\ Cardinality(ExportLines(stdout)) = 1
       /\ \A k \in Managed :
            Cardinality(AssignPlaces(stdout, k)) + Cardinality(UnsetPlaces(stdout, k)) = 1
  /\ lastCmd = "eval" => shellEnv = ShellEval(EmptyEnv, stdout)
  /\ ( /\ lastCmd = "expiry"
       /\ evaluated.cmd = "root"
       /\ evaluated.resolved.Creds.SessionToken = "" )
     => err = ErrNotTemporary

\* A token-less export in a shell that evaluated a temporary-credential export.
C10_Witness ==
  /\ Exported
  /\ resolved.Creds.SessionToken = ""
  /\ evaluated.cmd = "root"
  /\ evaluated.resolved.Creds.SessionToken # ""
  /\ Getenv(shellEnv, sessionToken) = evaluated.resolved.Creds.SessionToken
  /\ Getenv(shellEnv, sessionExpiresAt) # ""
====
